---- MODULE Spec2Model ----
(***************************************************************************)
(* paperless-post-consume: src/src/main.rs.                                *)
(*                                                                         *)
(* One run of main reads three environment variables, GETs a document's    *)
(* title and created_date, matches the title against DATE_PATTERNS and,    *)
(* on a match, PATCHes the stripped title and the date found in it.        *)
(* Text is a sequence of one-character strings (ASCII).  The remote API    *)
(* is the environment: it answers every request with a transport error or  *)
(* a status code, and stores what a PATCH wrote.                           *)
(***************************************************************************)
EXTENDS Integers, Sequences, FiniteSets, TLC

\* ------------------------------------------------------------------ bounds
\* longest separator run generated between a title's date prefix and its rest
MaxSepLen == 3
\* number of times the program is run on the same document
MaxRuns == 2

\* --------------------------------------------------------------- constants
StatusOK == 200
StatusUnauthorized == 401
StatusServerError == 500
StatusNonAuthoritative == 203
\* exit status of a Rust process whose main thread panicked
PanicExitCode == 101
I32Max == 2147483647

\* -------------------------------------------------------------- characters
Digits == {"0", "1", "2", "3", "4", "5", "6", "7", "8", "9"}
DigitSeq == <<"0", "1", "2", "3", "4", "5", "6", "7", "8", "9">>
\* \s of the regex crate, restricted to ASCII
Whitespace == {" ", "\t", "\n", "\r", "\f"}

DigitValue(c) == (CHOOSE k \in 1..10 : DigitSeq[k] = c) - 1

\* s[from..] of Rust: the suffix of s after its first n characters
Suffix(s, n) == SubSeq(s, n + 1, Len(s))

\* ------------------------------------------------------------ str::parse
\* i32::from_str: an optional sign, at least one ASCII digit, nothing else,
\* and the value accumulated with checked arithmetic (overflow is an error).
ParseError == [ok |-> FALSE, val |-> 0]

RECURSIVE ParseDigits(_, _, _, _)
ParseDigits(s, i, acc, positive) ==
    IF i > Len(s) THEN [ok |-> TRUE, val |-> acc]
    ELSE IF s[i] \notin Digits THEN ParseError
    ELSE LET d == DigitValue(s[i])
             mag == IF positive THEN acc ELSE -acc
             lastDigit == IF positive THEN I32Max % 10 ELSE (I32Max % 10) + 1
         IN IF mag > I32Max \div 10 \/ (mag = I32Max \div 10 /\ d > lastDigit)
            THEN ParseError
            ELSE ParseDigits(s, i + 1,
                             IF positive THEN acc * 10 + d ELSE acc * 10 - d,
                             positive)

ParseI32(s) ==
    IF Len(s) = 0 THEN ParseError
    ELSE IF s[1] \in {"+", "-"}
         THEN IF Len(s) = 1 THEN ParseError
              ELSE ParseDigits(s, 2, 0, s[1] = "+")
         ELSE ParseDigits(s, 1, 0, TRUE)

\* ------------------------------------------------------------ DATE_PATTERNS
NoCaptures == [found |-> FALSE, start |-> 0, end |-> 0,
               year |-> <<>>, month |-> <<>>, day |-> <<>>]

AllDigits(t, a, b) == b <= Len(t) /\ \A k \in a..b : t[k] \in Digits

IsChar(t, i, c) == i <= Len(t) /\ t[i] = c

\* \s* (greedy): the first position at or after i that holds no whitespace
RECURSIVE SkipWhitespace(_, _)
SkipWhitespace(t, i) ==
    IF i <= Len(t) /\ t[i] \in Whitespace THEN SkipWhitespace(t, i + 1) ELSE i

\* -? (greedy): one '-' is consumed when there is one
SkipDash(t, i) == IF IsChar(t, i, "-") THEN i + 1 ELSE i

\* variant: the trailing part written \s*-?
TrailerEndNoTrailingSpace(t, i) == SkipDash(t, SkipWhitespace(t, i))
\* \s*-?\s* : the position after the trailing part of either pattern
TrailerEnd(t, i) == SkipWhitespace(t, SkipDash(t, SkipWhitespace(t, i)))

\* (?<year>[0-9]{4})-(?<month>[0-9]{2})-(?<day>[0-9]{2})\s*-?\s* at position s
IsoAt(t, s) ==
    IF /\ AllDigits(t, s, s + 3) /\ IsChar(t, s + 4, "-")
       /\ AllDigits(t, s + 5, s + 6) /\ IsChar(t, s + 7, "-")
       /\ AllDigits(t, s + 8, s + 9)
    THEN [found |-> TRUE, start |-> s, end |-> TrailerEnd(t, s + 10) - 1,
          year |-> SubSeq(t, s, s + 3), month |-> SubSeq(t, s + 5, s + 6),
          day |-> SubSeq(t, s + 8, s + 9)]
    ELSE NoCaptures

\* (?<day>[0-9]{2})\.(?<month>[0-9]{2})\.(?<year>[0-9]{4})\s*-?\s* at position s
GermanAt(t, s) ==
    IF /\ AllDigits(t, s, s + 1) /\ IsChar(t, s + 2, ".")
       /\ AllDigits(t, s + 3, s + 4) /\ IsChar(t, s + 5, ".")
       /\ AllDigits(t, s + 6, s + 9)
    THEN [found |-> TRUE, start |-> s, end |-> TrailerEnd(t, s + 10) - 1,
          year |-> SubSeq(t, s + 6, s + 9), month |-> SubSeq(t, s + 3, s + 4),
          day |-> SubSeq(t, s, s + 1)]
    ELSE NoCaptures

\* DATE_PATTERNS[0].captures(title): anchored by ^
IsoCaptures(t) == IsoAt(t, 1)

\* the same pattern written without its ^ anchor: the leftmost match
GermanCapturesUnanchored(t) ==
    IF \E s \in 1..Len(t) : GermanAt(t, s).found
    THEN GermanAt(t, CHOOSE s \in 1..Len(t) :
             GermanAt(t, s).found /\ \A r \in 1..(s - 1) : ~GermanAt(t, r).found)
    ELSE NoCaptures
\* DATE_PATTERNS[1].captures(title): anchored by ^
GermanCaptures(t) == GermanAt(t, 1)

DATE_PATTERNS == <<"iso", "german">>

Captures(pattern, t) ==
    IF pattern = "iso" THEN IsoCaptures(t) ELSE GermanCaptures(t)

\* patterns.iter().find_map(|pattern| pattern.captures(title))
RECURSIVE FindMapFrom(_, _, _)
FindMapFrom(patterns, k, t) ==
    IF k > Len(patterns) THEN NoCaptures
    ELSE IF Captures(patterns[k], t).found THEN Captures(patterns[k], t)
    ELSE FindMapFrom(patterns, k + 1, t)

Matches(t) == FindMapFrom(DATE_PATTERNS, 1, t)

\* date_parts[0].len()
MatchLen(date_parts) == date_parts.end - date_parts.start + 1

\* ------------------------------------------------------------ environment
Unset == "unset"
NotUnicode == "notunicode"
IsSet == "set"

\* env::var(name): Ok(value) only for a variable that is set to valid Unicode
VarOk(v) == v.kind = IsSet

PAPERLESS_API_URL_DEFAULT == "http://localhost:8000/api/"

\* lines 29-35: the two required variables
ConfigOk(e) ==
    /\ VarOk(e.DOCUMENT_ID)
    /\ ParseI32(e.DOCUMENT_ID.val).ok
    /\ VarOk(e.PAPERLESS_API_TOKEN)

\* variant: an unset variable read as the empty string
ApiUrlOrEmpty(e) == e.PAPERLESS_API_URL.val
\* lines 37-46: Err(_) of either kind selects the default
ApiUrl(e) ==
    IF VarOk(e.PAPERLESS_API_URL) THEN e.PAPERLESS_API_URL.val
    ELSE PAPERLESS_API_URL_DEFAULT

\* format!("{api_url}documents/{document_id}/")
RequestUrl(url, id) == url \o "documents/" \o ToString(id) \o "/"

\* format!("Token {api_token}")
Authorization(token) == "Token " \o token

\* ------------------------------------------------------------------ JSON
NoBody == [json |-> FALSE, fields |-> [none |-> TRUE]]

\* .json(&new_document_data): an object of the struct's two fields
ToJson(doc) ==
    [json |-> TRUE, fields |-> [title |-> doc.title, created_date |-> doc.created_date]]

\* response.json::<DocumentProperties>(): both fields must be present; any
\* other field of the object is ignored
FromJson(body) ==
    IF body.json /\ {"title", "created_date"} \subseteq DOMAIN body.fields
    THEN [ok |-> TRUE,
          doc |-> [title |-> body.fields.title,
                   created_date |-> body.fields.created_date]]
    ELSE [ok |-> FALSE, doc |-> [title |-> <<>>, created_date |-> <<>>]]

\* variant: the fetched created_date is written back
NewDocumentDataKeepDate(doc, parts) ==
    [title |-> Suffix(doc.title, MatchLen(parts)),
     created_date |-> doc.created_date]
\* variant: the captures joined in the order day, month, year
NewDocumentDataDayFirst(doc, parts) ==
    [title |-> Suffix(doc.title, MatchLen(parts)),
     created_date |-> parts.day \o <<"-">> \o parts.month
                      \o <<"-">> \o parts.year]
\* variant: only the ten characters of the date are cut off
NewDocumentDataDateOnly(doc, parts) ==
    [title |-> Suffix(doc.title, 10),
     created_date |-> parts.year \o <<"-">> \o parts.month
                      \o <<"-">> \o parts.day]
\* lines 92-101: the title after the matched span, the captures as Y-M-D
NewDocumentData(doc, parts) ==
    [title |-> Suffix(doc.title, MatchLen(parts)),
     created_date |-> parts.year \o <<"-">> \o parts.month
                      \o <<"-">> \o parts.day]

\* ------------------------------------------------------------- input sets
ISO_DATE == <<"2", "0", "2", "3", "-", "0", "1", "-", "0", "5">>
GERMAN_DATE == <<"0", "5", ".", "0", "1", ".", "2", "0", "2", "3">>
ISO_OUT_OF_RANGE == <<"2", "0", "2", "3", "-", "1", "3", "-", "4", "5">>
DOTTED_ISO == <<"2", "0", "2", "3", ".", "0", "1", ".", "0", "5">>
INVOICE == <<"I", "n", "v", "o", "i", "c", "e">>
OTHER_DATE == <<"1", "9", "9", "9", "-", "1", "2", "-", "3", "1">>

Prefixes == {ISO_DATE, GERMAN_DATE, ISO_OUT_OF_RANGE, DOTTED_ISO, <<>>}
Separators == UNION {[1..k -> {" ", "-"}] : k \in 0..MaxSepLen}
Rests == {<<>>, INVOICE, GERMAN_DATE, <<"\t", "A">>}

Titles == {p \o s \o r : p \in Prefixes, s \in Separators, r \in Rests}
CreatedDates == {ISO_DATE, OTHER_DATE}
Documents == [title : Titles, created_date : CreatedDates]

ScenarioA == ISO_DATE \o <<" ", "-", " ">> \o INVOICE
ScenarioB == GERMAN_DATE \o <<" ">> \o INVOICE
ScenarioC == INVOICE

DocumentIdVars ==
    {[kind |-> Unset, val |-> <<>>], [kind |-> NotUnicode, val |-> <<>>]}
    \cup {[kind |-> IsSet, val |-> v] :
            v \in {<<"4", "2">>, <<"-", "7">>, <<"+", "3">>, <<>>, <<"-">>,
                   <<"4", "2", "a">>, <<" ", "4", "2">>,
                   <<"2", "1", "4", "7", "4", "8", "3", "6", "4", "7">>,
                   <<"2", "1", "4", "7", "4", "8", "3", "6", "4", "8">>,
                   <<"-", "2", "1", "4", "7", "4", "8", "3", "6", "4", "8">>,
                   <<"-", "2", "1", "4", "7", "4", "8", "3", "6", "4", "9">>}}
TokenVars ==
    {[kind |-> Unset, val |-> ""], [kind |-> NotUnicode, val |-> ""],
     [kind |-> IsSet, val |-> "s3cr3t"]}
UrlVars ==
    {[kind |-> Unset, val |-> ""], [kind |-> NotUnicode, val |-> ""],
     [kind |-> IsSet, val |-> "https://paperless.example/api/"]}

Environments ==
    [DOCUMENT_ID : DocumentIdVars, PAPERLESS_API_TOKEN : TokenVars,
     PAPERLESS_API_URL : UrlVars]
UsualEnvironment ==
    [DOCUMENT_ID |-> [kind |-> IsSet, val |-> <<"4", "2">>],
     PAPERLESS_API_TOKEN |-> [kind |-> IsSet, val |-> "s3cr3t"],
     PAPERLESS_API_URL |-> [kind |-> Unset, val |-> ""]]
ScenarioDocuments ==
    {[title |-> t, created_date |-> OTHER_DATE] :
        t \in {ScenarioA, ScenarioB, ScenarioC}}

\* every environment on the scenario documents, every document under the
\* usual environment
Inputs ==
    (Environments \X ScenarioDocuments) \cup ({UsualEnvironment} \X Documents)

\* -------------------------------------------------------------------- state
VARIABLES
    env,                \* the process environment of every run
    server,             \* the document the remote API stores
    run,                \* number of the current run of main
    pc,                 \* position of the current run in main
    document_id, api_token, api_url, request_url,
    get_response,       \* `response` of line 53
    document_data,
    date_parts,         \* `matches` of line 83
    new_document_data,
    patch_response,     \* `response` of line 108
    requests,           \* the requests the current run has sent, in order
    exit_code,
    prev                \* what the previous run fetched, sent and returned

config == <<document_id, api_token, api_url, request_url>>
locals == <<get_response, document_data, date_parts, new_document_data,
            patch_response>>
vars == <<env, server, run, pc, config, locals, requests, exit_code, prev>>

NoResponse == [kind |-> "none", status |-> 0, body |-> NoBody]
TransportError == [kind |-> "error", status |-> 0, body |-> NoBody]
Response(status, body) == [kind |-> "response", status |-> status, body |-> body]
NoDocument == [title |-> <<>>, created_date |-> <<>>]
NoRun == [exit_code |-> -1, requests |-> <<>>, fetched |-> FALSE,
          document_data |-> NoDocument, patch_response |-> NoResponse]

ErrorText == [json |-> FALSE, fields |-> [detail |-> "error"]]

\* the stored document as the API serialises it, among other fields
DocumentJson(stored) ==
    [json |-> TRUE,
     fields |-> [id |-> 42, title |-> stored.title,
                 created_date |-> stored.created_date]]

\* what the API may answer to the GET of line 53: no answer, or a status with
\* the stored document, an object of another shape, or text that is no JSON
GetResponses(stored) ==
    {TransportError}
    \cup {Response(StatusOK, b) :
            b \in {DocumentJson(stored),
                   [json |-> TRUE, fields |-> [id |-> 42, title |-> stored.title]],
                   ErrorText}}
    \cup {Response(st, ErrorText) : st \in {StatusUnauthorized, StatusServerError}}
    \cup {Response(StatusNonAuthoritative, DocumentJson(stored))}

\* what the API may store after the PATCH of line 108 carrying `body`, per
\* answer: a 200 means the write landed, a 401 that it did not, and after a
\* lost answer or a 500 any part of it may have been applied
PatchOutcomes(stored, body) ==
    LET written == [title |-> body.fields.title,
                    created_date |-> body.fields.created_date]
        partial == {stored, written,
                    [stored EXCEPT !.title = written.title],
                    [stored EXCEPT !.created_date = written.created_date]}
    IN {<<Response(StatusOK, ErrorText), written>>,
        <<Response(StatusUnauthorized, ErrorText), stored>>}
       \cup {<<TransportError, d>> : d \in partial}
       \cup {<<Response(StatusServerError, ErrorText), d>> : d \in partial}

Init ==
    /\ \E i \in Inputs : env = i[1] /\ server = i[2]
    /\ run = 1
    /\ pc = "config"
    /\ document_id = 0
    /\ api_token = ""
    /\ api_url = ""
    /\ request_url = ""
    /\ get_response = NoResponse
    /\ document_data = NoDocument
    /\ date_parts = NoCaptures
    /\ new_document_data = NoDocument
    /\ patch_response = NoResponse
    /\ requests = <<>>
    /\ exit_code = -1
    /\ prev = NoRun

\* panic!/expect: the process ends with the panic exit status
Abort == pc' = "exited" /\ exit_code' = PanicExitCode

\* lines 29-50
ResolveConfig ==
    /\ pc = "config"
    /\ IF ConfigOk(env)
       THEN /\ document_id' = ParseI32(env.DOCUMENT_ID.val).val
            /\ api_token' = env.PAPERLESS_API_TOKEN.val
            /\ api_url' = ApiUrl(env)
            /\ request_url' = RequestUrl(api_url', document_id')
            /\ pc' = "get"
            /\ UNCHANGED exit_code
       ELSE /\ Abort
            /\ UNCHANGED config
    /\ UNCHANGED <<env, server, run, locals, requests, prev>>

\* lines 52-58
Fetch ==
    /\ pc = "get"
    /\ requests' = Append(requests,
                          [method |-> "GET", url |-> request_url,
                           authorization |-> Authorization(api_token),
                           body |-> NoBody])
    /\ \E r \in GetResponses(server) :
          /\ get_response' = r
          /\ IF r.kind = "error"
             THEN Abort
             ELSE pc' = "get_status" /\ UNCHANGED exit_code
    /\ UNCHANGED <<env, server, run, config, document_data, date_parts,
                   new_document_data, patch_response, prev>>

\* variant: every 2xx status passes
StatusPassesSuccess(status) == status >= 200 /\ status < 300
\* the StatusCode::OK arm of both matches on response.status()
StatusPasses(status) == status = StatusOK

\* variant: only the 401 arm aborts
CheckGetStatusOnly401 ==
    /\ pc = "get_status"
    /\ IF get_response.status # StatusUnauthorized
       THEN pc' = "parse" /\ UNCHANGED exit_code
       ELSE Abort
    /\ UNCHANGED <<env, server, run, config, locals, requests, prev>>

\* lines 61-71
CheckGetStatus ==
    /\ pc = "get_status"
    /\ IF StatusPasses(get_response.status)
       THEN pc' = "parse" /\ UNCHANGED exit_code
       ELSE Abort
    /\ UNCHANGED <<env, server, run, config, locals, requests, prev>>

\* lines 73-76
ParseDocumentData ==
    /\ pc = "parse"
    /\ LET parsed == FromJson(get_response.body)
       IN IF parsed.ok
          THEN /\ document_data' = parsed.doc
               /\ pc' = "extract"
               /\ UNCHANGED exit_code
          ELSE /\ Abort
               /\ UNCHANGED document_data
    /\ UNCHANGED <<env, server, run, config, get_response, date_parts,
                   new_document_data, patch_response, requests, prev>>

\* lines 83-90
Extract ==
    /\ pc = "extract"
    /\ date_parts' = Matches(document_data.title)
    /\ IF date_parts'.found
       THEN pc' = "build" /\ UNCHANGED exit_code
       ELSE pc' = "exited" /\ exit_code' = 0
    /\ UNCHANGED <<env, server, run, config, get_response, document_data,
                   new_document_data, patch_response, requests, prev>>

\* lines 92-101
Build ==
    /\ pc = "build"
    /\ new_document_data' = NewDocumentData(document_data, date_parts)
    /\ pc' = "patch"
    /\ UNCHANGED <<env, server, run, config, get_response, document_data,
                   date_parts, patch_response, requests, exit_code, prev>>

\* lines 108-114
Update ==
    /\ pc = "patch"
    /\ LET body == ToJson(new_document_data)
       IN /\ requests' = Append(requests,
                                [method |-> "PATCH", url |-> request_url,
                                 authorization |-> Authorization(api_token),
                                 body |-> body])
          /\ \E o \in PatchOutcomes(server, body) :
                /\ patch_response' = o[1]
                /\ server' = o[2]
                /\ IF o[1].kind = "error"
                   THEN Abort
                   ELSE pc' = "patch_status" /\ UNCHANGED exit_code
    /\ UNCHANGED <<env, run, config, get_response, document_data, date_parts,
                   new_document_data, prev>>

\* variant: a 200 is followed by a re-fetch of the document
CheckPatchStatusRefetch ==
    /\ pc = "patch_status"
    /\ IF StatusPasses(patch_response.status)
       THEN pc' = "get" /\ UNCHANGED exit_code
       ELSE Abort
    /\ UNCHANGED <<env, server, run, config, locals, requests, prev>>

\* lines 116-127
CheckPatchStatus ==
    /\ pc = "patch_status"
    /\ IF StatusPasses(patch_response.status)
       THEN pc' = "exited" /\ exit_code' = 0
       ELSE Abort
    /\ UNCHANGED <<env, server, run, config, locals, requests, prev>>

\* line 26: the program is started again for the same document
Rerun ==
    /\ pc = "exited"
    /\ run < MaxRuns
    /\ run' = run + 1
    /\ prev' = [exit_code |-> exit_code, requests |-> requests,
                fetched |-> pc = "exited" /\ document_data # NoDocument,
                document_data |-> document_data,
                patch_response |-> patch_response]
    /\ pc' = "config"
    /\ document_id' = 0
    /\ api_token' = ""
    /\ api_url' = ""
    /\ request_url' = ""
    /\ get_response' = NoResponse
    /\ document_data' = NoDocument
    /\ date_parts' = NoCaptures
    /\ new_document_data' = NoDocument
    /\ patch_response' = NoResponse
    /\ requests' = <<>>
    /\ exit_code' = -1
    /\ UNCHANGED <<env, server>>

Next ==
    \/ ResolveConfig
    \/ Fetch
    \/ CheckGetStatus
    \/ ParseDocumentData
    \/ Extract
    \/ Build
    \/ Update
    \/ CheckPatchStatus
    \/ Rerun

Spec == Init /\ [][Next]_vars

\* ================================================================= claims
\* Vocabulary of the claims, stated on the text itself.

\* four digits, '-', two digits, '-', two digits at the start of t
StartsWithIsoDate(t) ==
    /\ Len(t) >= 10
    /\ \A k \in {1, 2, 3, 4, 6, 7, 9, 10} : t[k] \in Digits
    /\ t[5] = "-" /\ t[8] = "-"

\* two digits, '.', two digits, '.', four digits at the start of t
StartsWithGermanDate(t) ==
    /\ Len(t) >= 10
    /\ \A k \in {1, 2, 4, 5, 7, 8, 9, 10} : t[k] \in Digits
    /\ t[3] = "." /\ t[6] = "."

\* whitespace, at most one '-', whitespace
IsTrailer(s) ==
    \E a \in 0..Len(s) :
        /\ \A k \in 1..a : s[k] \in Whitespace
        /\ \/ \A k \in (a + 1)..Len(s) : s[k] \in Whitespace
           \/ /\ a < Len(s) /\ s[a + 1] = "-"
              /\ \A k \in (a + 2)..Len(s) : s[k] \in Whitespace

\* rest is what follows the date of t and the longest trailer after it
IsRemainder(t, rest) ==
    /\ Len(rest) <= Len(t) - 10
    /\ rest = Suffix(t, Len(t) - Len(rest))
    /\ LET sep == SubSeq(t, 11, Len(t) - Len(rest))
       IN /\ IsTrailer(sep)
          /\ rest # <<>> => /\ rest[1] \notin Whitespace
                            /\ rest[1] = "-" => \E k \in 1..Len(sep) : sep[k] = "-"

PatchRequests == SelectSeq(requests, LAMBDA r : r.method = "PATCH")
GetRequests == SelectSeq(requests, LAMBDA r : r.method = "GET")
PatchIssued == Len(PatchRequests) > 0
PatchBody == PatchRequests[1].body.fields

Exited == pc = "exited"
\* the run got past lines 92-101
Built == pc \in {"patch", "patch_status"} \/ (Exited /\ PatchIssued)

GetReturned200 == get_response.kind = "response" /\ get_response.status = 200
GetBodyParses ==
    /\ get_response.body.json
    /\ {"title", "created_date"} \subseteq DOMAIN get_response.body.fields
FetchedTitle == get_response.body.fields.title
FetchedTitleMatches ==
    StartsWithIsoDate(FetchedTitle) \/ StartsWithGermanDate(FetchedTitle)
PatchReturned200 ==
    patch_response.kind = "response" /\ patch_response.status = 200

\* C1: a PATCH is issued only after a GET that returned 200 with a body that
\* parsed and a title matching one of the two patterns, and every run that
\* ends after such a GET has issued one.
C1_PatchIffMatch ==
    /\ PatchIssued => GetReturned200 /\ GetBodyParses /\ FetchedTitleMatches
    /\ (Exited /\ GetReturned200 /\ GetBodyParses /\ FetchedTitleMatches)
          => PatchIssued

C1_Witness_Patched ==
    Exited /\ PatchIssued /\ GetReturned200 /\ FetchedTitle = ScenarioA

\* C2: for a fetched title that starts with an ISO date, the new
\* created_date is the first ten characters of the title verbatim and the new
\* title is what follows the date and the trailer the pattern consumes; the
\* PATCH carries exactly these two values.
C2_IsoExtraction ==
    (Built /\ StartsWithIsoDate(document_data.title)) =>
        /\ new_document_data.created_date = SubSeq(document_data.title, 1, 10)
        /\ IsRemainder(document_data.title, new_document_data.title)
        /\ document_data.title = ScenarioA =>
              new_document_data = [title |-> INVOICE, created_date |-> ISO_DATE]
        /\ PatchIssued =>
              /\ PatchBody.title = new_document_data.title
              /\ PatchBody.created_date = new_document_data.created_date

C2_Witness_ScenarioA ==
    /\ PatchIssued /\ document_data.title = ScenarioA
    /\ PatchBody.title = INVOICE /\ PatchBody.created_date = ISO_DATE

\* C3: for a fetched title that starts with a German date, the new
\* created_date is year, month and day of the title in that order, digits
\* verbatim, and the new title is what follows the date and the trailer.
C3_GermanExtraction ==
    (Built /\ StartsWithGermanDate(document_data.title)) =>
        LET t == document_data.title
        IN /\ new_document_data.created_date
                = SubSeq(t, 7, 10) \o <<"-">> \o SubSeq(t, 4, 5) \o <<"-">>
                  \o SubSeq(t, 1, 2)
           /\ IsRemainder(t, new_document_data.title)
           /\ t = ScenarioB =>
                 new_document_data = [title |-> INVOICE, created_date |-> ISO_DATE]
           /\ PatchIssued =>
                 /\ PatchBody.title = new_document_data.title
                 /\ PatchBody.created_date = new_document_data.created_date

C3_Witness_ScenarioB ==
    /\ PatchIssued /\ document_data.title = ScenarioB
    /\ PatchBody.title = INVOICE /\ PatchBody.created_date = ISO_DATE

\* the previous run PATCHed the document and the API answered 200
PrevUpdated ==
    /\ run >= 2
    /\ prev.patch_response.kind = "response"
    /\ prev.patch_response.status = 200
PrevPatchedTitle == prev.requests[Len(prev.requests)].body.fields.title

\* C4 as claimed: after a run whose PATCH returned 200, the next run on the
\* same document finds no match and issues no PATCH.
C4_SecondRunNoOp ==
    PrevUpdated => /\ ~PatchIssued
                   /\ ~date_parts.found

\* C4 as amended: after a run whose PATCH returned 200 and wrote a title that
\* does not itself start with a date of either pattern, the next run finds no
\* match, issues no PATCH, leaves the stored title alone and, once its GET
\* returned 200 with a body that parses, exits with 0.
C4_SecondRunNoOpUnlessDateRemains ==
    (/\ PrevUpdated
     /\ ~StartsWithIsoDate(PrevPatchedTitle)
     /\ ~StartsWithGermanDate(PrevPatchedTitle)) =>
        /\ ~PatchIssued
        /\ ~date_parts.found
        /\ server.title = PrevPatchedTitle
        /\ (Exited /\ GetReturned200 /\ GetBodyParses) => exit_code = 0

C4_Witness_SecondRunDone ==
    /\ PrevUpdated /\ PrevPatchedTitle = INVOICE
    /\ Exited /\ GetReturned200 /\ GetBodyParses
    /\ document_data.title = INVOICE /\ exit_code = 0

\* C5: no fetched title is matched by both patterns, and trying the patterns
\* in the other order finds the same captures.
C5_PatternsExclusive ==
    pc \in {"build", "patch", "patch_status", "exited"} /\ GetBodyParses =>
        LET t == FetchedTitle
        IN /\ ~(Captures("iso", t).found /\ Captures("german", t).found)
           /\ FindMapFrom(<<"german", "iso">>, 1, t)
                = FindMapFrom(DATE_PATTERNS, 1, t)
           /\ pc # "exited" \/ PatchIssued =>
                 date_parts = FindMapFrom(<<"german", "iso">>, 1, t)

C5_Witness_GermanFound ==
    /\ pc = "build" /\ date_parts.found
    /\ StartsWithGermanDate(document_data.title)
    /\ date_parts = FindMapFrom(<<"german", "iso">>, 1, document_data.title)

\* C6: a run exits with 0 exactly when its GET returned 200 with a body that
\* parsed and no pattern matched the title, or its PATCH returned 200; every
\* other run ends with the non-zero exit status of a panic; and a run that
\* has an exit status has ended.
C6_ExitCodes ==
    /\ Exited =>
          /\ exit_code \in {0, PanicExitCode}
          /\ exit_code = 0 <=>
                \/ GetReturned200 /\ GetBodyParses /\ ~FetchedTitleMatches
                \/ PatchReturned200
    /\ ~Exited => exit_code = -1

C6_Witness_BothExits ==
    /\ run = 2 /\ Exited
    /\ prev.exit_code = PanicExitCode
    /\ prev.patch_response = [kind |-> "response", status |-> StatusServerError,
                              body |-> ErrorText]
    /\ exit_code = 0 /\ ~PatchIssued /\ GetReturned200

\* a call that failed: no answer, or an answer with a status other than 200
Failed(response) ==
    \/ response.kind = "error"
    \/ response.kind = "response" /\ response.status # 200

\* C7: a run sends at most one GET and then at most one PATCH, the PATCH
\* only after the GET's answer was a 200 whose body was parsed, and nothing
\* after a call that failed.
C7_SequentialNoRetry ==
    /\ Len(requests) <= 2
    /\ Len(GetRequests) <= 1 /\ Len(PatchRequests) <= 1
    /\ Len(requests) >= 1 => requests[1].method = "GET"
    /\ Len(requests) = 2 =>
          /\ requests[2].method = "PATCH"
          /\ GetReturned200
          /\ document_data = [title |-> FetchedTitle,
                              created_date |-> get_response.body.fields.created_date]
    /\ Failed(get_response) => Exited \/ pc = "get_status"
    /\ Failed(get_response) => Len(requests) = 1
    /\ Failed(patch_response) => Len(requests) = 2
    /\ (Failed(patch_response) \/ PatchReturned200) =>
          requests[Len(requests)].method = "PATCH"

C7_Witness_PatchFailed ==
    /\ Exited /\ Len(requests) = 2
    /\ patch_response.kind = "response"
    /\ patch_response.status = StatusServerError

\* the texts among DocumentIdVars that denote a signed 32-bit integer, each
\* with the text the integer is formatted as
IntegerTexts ==
    {<<(<<"4", "2">>), "42">>, <<(<<"-", "7">>), "-7">>, <<(<<"+", "3">>), "3">>,
     <<(<<"2", "1", "4", "7", "4", "8", "3", "6", "4", "7">>), "2147483647">>,
     <<(<<"-", "2", "1", "4", "7", "4", "8", "3", "6", "4", "8">>), "-2147483648">>}

RequiredVarsGood ==
    /\ env.DOCUMENT_ID.kind = "set"
    /\ \E p \in IntegerTexts : p[1] = env.DOCUMENT_ID.val
    /\ env.PAPERLESS_API_TOKEN.kind = "set"

\* C8: with DOCUMENT_ID absent, unreadable or no signed 32-bit integer, or
\* PAPERLESS_API_TOKEN absent or unreadable, the run sends nothing and ends
\* with the panic exit status; with both good it gets to the GET; and with
\* PAPERLESS_API_URL absent or unreadable every request goes to
\* http://localhost:8000/api/documents/{id}/.
C8_ConfigFirst ==
    /\ ~RequiredVarsGood =>
          /\ requests = <<>>
          /\ pc \in {"config", "exited"}
          /\ Exited => exit_code = PanicExitCode
    /\ (RequiredVarsGood /\ Exited) => Len(requests) >= 1
    /\ env.PAPERLESS_API_URL.kind # "set" =>
          \A k \in 1..Len(requests) :
             \E p \in IntegerTexts :
                /\ p[1] = env.DOCUMENT_ID.val
                /\ requests[k].url
                     = "http://localhost:8000/api/documents/" \o p[2] \o "/"
    /\ env.PAPERLESS_API_URL.kind = "set" =>
          \A k \in 1..Len(requests) :
             \E p \in IntegerTexts :
                /\ p[1] = env.DOCUMENT_ID.val
                /\ requests[k].url
                     = env.PAPERLESS_API_URL.val \o "documents/" \o p[2] \o "/"

C8_Witness_DefaultUrl ==
    /\ env.PAPERLESS_API_URL.kind = "notunicode"
    /\ env.DOCUMENT_ID.val = <<"+", "3">>
    /\ Len(requests) = 2
    /\ requests[2].url = "http://localhost:8000/api/documents/3/"

\* the run has decided whether to PATCH
Decided == pc \in {"patch_status", "exited"}
PrevPatchIssued ==
    Len(prev.requests) = 2 /\ prev.requests[2].method = "PATCH"

\* C9: the PATCH is decided and built from the fetched title alone: its body
\* is what lines 92-101 build from the same title under every other
\* created_date, and a run that fetched the title its predecessor fetched,
\* with another created_date, issues a PATCH exactly if the predecessor did,
\* with the same body.
C9_CreatedDateIgnored ==
    /\ PatchIssued =>
          \A d \in CreatedDates \cup {PatchBody.created_date} :
             PatchBody = NewDocumentData(
                            [title |-> FetchedTitle, created_date |-> d],
                            Matches(FetchedTitle))
    /\ (/\ run >= 2 /\ Decided /\ prev.fetched
        /\ GetReturned200 /\ GetBodyParses /\ document_data # NoDocument
        /\ prev.document_data.title = document_data.title
        /\ prev.document_data.created_date # document_data.created_date) =>
          /\ PrevPatchIssued <=> PatchIssued
          /\ PatchIssued => prev.requests[2].body = requests[2].body

C9_Witness_DateAlreadySet ==
    /\ run = 2 /\ Decided /\ prev.fetched /\ PrevPatchIssued /\ PatchIssued
    /\ prev.document_data.title = document_data.title
    /\ prev.document_data.created_date = OTHER_DATE
    /\ document_data.created_date = ISO_DATE
    /\ PatchBody.created_date = ISO_DATE

\* C10: the new title of a PATCH is a suffix of the fetched title that is
\* empty or begins with a character that is no whitespace; a title that is
\* only a date gives the empty title, and of two '-' after the date the second
\* begins the new title.
C10_NewTitleTrimmed ==
    PatchIssued =>
        LET t == FetchedTitle
            n == PatchBody.title
        IN /\ Len(n) <= Len(t) - 10
           /\ n = Suffix(t, Len(t) - Len(n))
           /\ n = <<>> \/ n[1] \notin Whitespace
           /\ Len(t) = 10 => n = <<>>
           /\ (Len(t) >= 12 /\ t[11] = "-" /\ t[12] = "-") =>
                 n = Suffix(t, 11)

C10_Witness_SecondDash ==
    /\ PatchIssued
    /\ FetchedTitle = GERMAN_DATE \o <<"-", "-", " ">> \o <<"\t", "A">>
    /\ PatchBody.title = <<"-", " ", "\t", "A">>

C10_Witness_TabSkipped ==
    /\ PatchIssued
    /\ FetchedTitle = ISO_DATE \o <<" ", "-", " ">> \o <<"\t", "A">>
    /\ PatchBody.title = <<"A">>

====
